---- MODULE Spec2Model ----
(***************************************************************************)
(* Model of app.py, the "Eindbeoordeling Generator": a roster sheet is     *)
(* read (load_excel), every student row is substituted into a copy of the  *)
(* Word template (fill_template, format_score) and the documents are       *)
(* packed in a ZIP archive (generate_all_forms) by the main script.        *)
(*                                                                         *)
(* Conventions.                                                            *)
(*  - A Python str is a sequence of one-character strings.                 *)
(*  - A float is the exact rational n / Denom (every such value with a     *)
(*    power-of-two Denom is a double), or NaN: [nan |-> ..., n |-> ...].   *)
(*    A literal word whose letters play no part ('Studentnummer', '.docx') *)
(*    is kept as one element.                                              *)
(***************************************************************************)
EXTENDS Integers, Sequences, FiniteSets, TLC

VARIABLES
    value,          \* format_score: the argument
    out,            \* format_score: the returned string (None before the call)
    template,       \* the cells of the template file that fill_template reads
    student_data,   \* fill_template: the roster row (row.to_dict())
    doc,            \* fill_template: the returned document (None before the call)
    pc,             \* main script: position
    uploaded_file,  \* main script: the raw sheet, or None
    common_data,    \* main script: examinator, datum, gelegenheid
    df,             \* main script: the roster load_excel returned, or None
    shown,          \* main script: what st.* calls rendered, in order
    zip_buffer,     \* generate_all_forms: the archive being written
    idx,            \* generate_all_forms: index of the row being processed
    zip_file        \* main script: the archive handed to st.download_button

vars == <<value, out, template, student_data, doc, pc, uploaded_file,
          common_data, df, shown, zip_buffer, idx, zip_file>>

None == [none |-> TRUE]

---------------------------------------------------------------------------
(* Bounds of the model *)

\* floats are the multiples of 1/Denom
Denom == 8
\* |numerator| of the floats format_score is checked on (MaxNum/Denom = 10.0)
MaxNum == 80
\* longest template cell text the substitution is checked on
MaxLen == 5
\* most preamble rows before the header row of a sheet
MaxPre == 1
\* most rows after the header row of a sheet
MaxData == 3

---------------------------------------------------------------------------
(* Python str helpers *)

Digits == {"0", "1", "2", "3", "4", "5", "6", "7", "8", "9"}

DigitChar(k) == <<"0", "1", "2", "3", "4", "5", "6", "7", "8", "9">>[k + 1]

\* str(n) of a non-negative int
RECURSIVE NatToStr(_)
NatToStr(n) == IF n < 10 THEN <<DigitChar(n)>>
               ELSE NatToStr(n \div 10) \o <<DigitChar(n % 10)>>

\* str(n) of an int
IntToStr(n) == IF n < 0 THEN <<"-">> \o NatToStr(-n) ELSE NatToStr(n)

\* s.replace(old, new) for a one-character old and a string new
RECURSIVE Replace(_, _, _)
Replace(s, old, new) ==
    IF s = <<>> THEN <<>>
    ELSE (IF Head(s) = old THEN new ELSE <<Head(s)>>) \o Replace(Tail(s), old, new)

\* the characters str.strip() / str.rstrip() remove
Whitespace == {" ", "\n", "\t"}

RECURSIVE lstrip(_)
lstrip(s) == IF s # <<>> /\ Head(s) \in Whitespace THEN lstrip(Tail(s)) ELSE s

RECURSIVE rstrip(_)
rstrip(s) == IF s # <<>> /\ s[Len(s)] \in Whitespace
             THEN rstrip(SubSeq(s, 1, Len(s) - 1)) ELSE s

strip(s) == rstrip(lstrip(s))

---------------------------------------------------------------------------
(* format_score *)

NaN == [nan |-> TRUE, n |-> 0]
Float(n) == [nan |-> FALSE, n |-> n]

Abs(n) == IF n < 0 THEN -n ELSE n

\* round(float(value), 1): the float nearest to v with one decimal, in tenths,
\* ties to the even tenth (CPython rounds the exact binary value half-even);
\* the sign is kept apart because round() keeps it on a zero result (-0.0)
round1(v) ==
    LET a == Abs(v.n) * 10
        q == a \div Denom
        r == a % Denom
        up == \/ 2 * r > Denom
              \/ 2 * r = Denom /\ q % 2 = 1
    IN  [neg |-> v.n < 0, tenths |-> IF up THEN q + 1 ELSE q]

\* str() of a float with one decimal (repr switches to exponent notation only
\* from 1e16 on, beyond every value of the model)
FloatToStr(f) ==
    (IF f.neg THEN <<"-">> ELSE <<>>)
        \o NatToStr(f.tenths \div 10) \o <<".">> \o <<DigitChar(f.tenths % 10)>>

format_score(v) ==
    IF v.nan THEN <<>>
    ELSE Replace(FloatToStr(round1(v)), ".", <<",">>)

---------------------------------------------------------------------------
(* re.search / re.sub with the pattern \d+[,\.]\d+$ *)

\* the pattern matches s from position p up to the end of s
MatchesFrom(s, p) ==
    \E q \in (p + 1)..(Len(s) - 1) :
        /\ \A j \in p..(q - 1) : s[j] \in Digits
        /\ s[q] \in {",", "."}
        /\ \A j \in (q + 1)..Len(s) : s[j] \in Digits

\* re.search(r'\d+[,\.]\d+$', s): the start of the leftmost match, 0 for None
re_search(s) ==
    LET starts == {p \in 1..Len(s) : MatchesFrom(s, p)}
    IN  IF starts = {} THEN 0
        ELSE CHOOSE p \in starts : \A o \in starts : p <= o

\* re.sub(r'\d+[,\.]\d+$', repl, s); repl holds no backslash, so it is literal
re_sub(repl, s) ==
    LET p == re_search(s)
    IN  IF p = 0 THEN s ELSE SubSeq(s, 1, p - 1) \o repl

---------------------------------------------------------------------------
(* fill_template *)

ScoreCols == {"Anam/LO", "Verslag", "Reflectie", "Onderdeel A", "Onderdeel B",
              "Onderdeel C", "Totaal", "Eindscore"}

\* the keys of student_data that fill_template subscripts
UsedCols == {"Naam", "Studentnummer"} \cup ScoreCols

\* str() of a 'Naam' value inside an f-string: a missing name is the float nan
NaamToStr(c) == IF c.t = "str" THEN c.s ELSE <<"n", "a", "n">>

\* a score cell of the roster as the float format_score receives
AsFloat(c) == IF c.t = "nan" THEN NaN ELSE Float(c.n)

\* UpdateScoreCell with strip() in place of rstrip() before the padding
UpdateScoreCellStripped(cell_text, score) ==
    IF re_search(strip(cell_text)) = 0
    THEN strip(cell_text) \o <<" ", " ">> \o score
    ELSE re_sub(score, strip(cell_text))

\* the three statements repeated for rows 2, 3 and 4 of table 2
UpdateScoreCell(cell_text, score) ==
    IF re_search(strip(cell_text)) = 0
    THEN rstrip(cell_text) \o <<" ", " ">> \o score
    ELSE re_sub(score, strip(cell_text))

\* Document that hands out the document of the previous call again
DocumentReused(template_path) == IF doc # None THEN doc ELSE template_path

\* Document(template_path): a document read from the template file
Document(template_path) == template_path

\* student_data[...] raises KeyError for a column the roster lacks
fill_template_raises(sd) == \E c \in UsedCols : c \notin DOMAIN sd

\* the document fill_template returns.  t1[r] is table 1 row r cell 1,
\* label[r] is table 2 row r cell 0, score[r] is table 2 row r cell 2 and
\* heading is table 2 row 0, which no statement assigns
fill_template(template_path, sd, cd) ==
    LET d == Document(template_path)
        S(c) == format_score(AsFloat(sd[c]))
    IN  [d EXCEPT
           !.t1 = (0 :> NaamToStr(sd["Naam"]) \o <<" ", "(">>
                          \o IntToStr(sd["Studentnummer"].n) \o <<")">>)
                  @@ (1 :> cd.examinator)
                  @@ (2 :> cd.datum)
                  @@ (3 :> cd.gelegenheid)
                  @@ (4 :> S("Eindscore")),
           !.label = (2 :> UpdateScoreCell(d.label[2], S("Anam/LO")))
                     @@ (3 :> UpdateScoreCell(d.label[3], S("Verslag")))
                     @@ (4 :> UpdateScoreCell(d.label[4], S("Reflectie"))),
           !.score = (2 :> S("Onderdeel A"))
                     @@ (3 :> S("Onderdeel B"))
                     @@ (4 :> S("Onderdeel C"))
                     @@ (5 :> S("Totaal"))]

---------------------------------------------------------------------------
(* load_excel *)

\* the cells of a sheet: empty, text, or a number (a float, n / Denom)
NaNCell == [t |-> "nan", s |-> <<>>, n |-> 0]
StrCell(s) == [t |-> "str", s |-> s, n |-> 0]
NumCell(n) == [t |-> "num", s |-> <<>>, n |-> n]
\* a cell after astype(int)
IntCell(k) == [t |-> "int", s |-> <<>>, n |-> k]

Range(f) == {f[j] : j \in DOMAIN f}

RECURSIVE Filter(_, _)
Filter(seq, keep) ==
    IF seq = <<>> THEN <<>>
    ELSE (IF Head(seq) \in keep THEN <<Head(seq)>> ELSE <<>>) \o Filter(Tail(seq), keep)

required_cols == <<"Studentnummer", "Naam", "Anam/LO", "Verslag", "Reflectie",
                   "Onderdeel A", "Onderdeel B", "Onderdeel C", "Totaal", "Eindscore">>

\* 'Studentnummer' in row.values
HasMarker(row) == StrCell(<<"Studentnummer">>) \in Range(row)

\* header_row without the break: the last row holding the marker
header_row_last(rows) ==
    LET marked == {i \in 1..Len(rows) : HasMarker(rows[i])}
    IN  IF marked = {} THEN 0
        ELSE CHOOSE i \in marked : \A o \in marked : i >= o

\* the loop of lines 36-40: the first row holding the marker, 0 for None
header_row(rows) ==
    LET marked == {i \in 1..Len(rows) : HasMarker(rows[i])}
    IN  IF marked = {} THEN 0
        ELSE CHOOSE i \in marked : \A o \in marked : i <= o

\* the position of the column titled c under the header row `columns`
ColPos(columns, c) == CHOOSE j \in 1..Len(columns) : columns[j] = StrCell(<<c>>)

\* astype(int) of a float: truncation towards zero
astype_int(c) ==
    IntCell(IF c.n < 0 THEN -((-c.n) \div Denom) ELSE c.n \div Denom)

\* dropna that drops no row
dropna_nothing(body, sn) == body

\* df.dropna(subset=['Studentnummer']): sn is the position of that column
dropna(body, sn) == Filter(body, {r \in Range(body) : r[sn].t # "nan"})

\* the DataFrame load_excel returns for a sheet that has a header row
load_excel(rows) ==
    LET h == header_row(rows)
        columns == rows[h]
        body == SubSeq(rows, h + 1, Len(rows))
        sn == ColPos(columns, "Studentnummer")
        kept == dropna(body, sn)
        available_cols ==
            Filter(required_cols, {c \in Range(required_cols) :
                                      StrCell(<<c>>) \in Range(columns)})
        Project(r) ==
            [c \in Range(available_cols) |->
                IF c = "Studentnummer" THEN astype_int(r[ColPos(columns, c)])
                ELSE r[ColPos(columns, c)]]
    IN  [columns |-> available_cols,
         rows |-> [k \in 1..Len(kept) |-> Project(kept[k])]]

---------------------------------------------------------------------------
(* generate_all_forms *)

\* SanitizeName without the removal of commas
SanitizeNameSpacesOnly(naam) == Replace(naam, " ", <<"_">>)

\* naam.replace(',', '').replace(' ', '_')
SanitizeName(naam) == Replace(Replace(naam, ",", <<>>), " ", <<"_">>)

\* FileName without the underscore between name and number
FileNameNoSeparator(naam, studentnummer) ==
    <<"Eindbeoordeling", "_">> \o naam \o IntToStr(studentnummer) \o <<".docx">>

\* f"Eindbeoordeling_{naam}_{studentnummer}.docx"
FileName(naam, studentnummer) ==
    <<"Eindbeoordeling", "_">> \o naam \o <<"_">> \o IntToStr(studentnummer)
        \o <<".docx">>

\* writestr that overwrites a member of the same name
writestr_replacing(zf, filename, data) ==
    Append(Filter(zf, {e \in Range(zf) : e.name # filename}),
           [name |-> filename, data |-> data])

\* ZipFile.writestr: a member is added even when its name is already present
writestr(zf, filename, data) == Append(zf, [name |-> filename, data |-> data])

\* the body of the loop raises: a KeyError in fill_template, or an
\* AttributeError in line 151 when 'Naam' is not a str (NaN has no replace)
RowRaises(sd) == fill_template_raises(sd) \/ sd["Naam"].t # "str"

---------------------------------------------------------------------------
(* Inputs *)

\* the strings of length at most n over the alphabet A
StringsUpTo(A, n) == UNION {[1..k -> A] : k \in 0..n}

\* the score columns of three students: complete, absent, and with a
\* negative and a zero value
Scores1 == ("Anam/LO" :> NumCell(58)) @@ ("Verslag" :> NumCell(48))
           @@ ("Reflectie" :> NumCell(45)) @@ ("Onderdeel A" :> NumCell(58))
           @@ ("Onderdeel B" :> NumCell(48)) @@ ("Onderdeel C" :> NumCell(45))
           @@ ("Totaal" :> NumCell(50)) @@ ("Eindscore" :> NumCell(51))
Scores2 == [c \in ScoreCols |-> NaNCell]
Scores3 == ("Anam/LO" :> NumCell(-1)) @@ ("Verslag" :> NaNCell)
           @@ ("Reflectie" :> NumCell(0)) @@ ("Onderdeel A" :> NumCell(80))
           @@ ("Onderdeel B" :> NumCell(0)) @@ ("Onderdeel C" :> NumCell(5))
           @@ ("Totaal" :> NumCell(28)) @@ ("Eindscore" :> NumCell(29))

\* the cells of one student under the required column names
Student(num, naam, scores) ==
    scores @@ ("Studentnummer" :> num) @@ ("Naam" :> naam)

\* the template file: three label cells, of which one ends in a score
TemplateFile ==
    [heading |-> <<"Onderdeel">>,
     t1 |-> [r \in 0..4 |-> <<>>],
     label |-> (2 :> <<"L", " ", "5", ",", "7">>) @@ (3 :> <<"L", " ">>)
               @@ (4 :> <<"L", "0", ".", "0">>),
     score |-> [r \in 2..5 |-> <<"0", ",", "0">>]]

\* the characters of the label cells the substitution is checked on
Alphabet == {"L", " ", "5", ",", "."}

Datum == <<"05-11-2026">>

CommonData(examinator, gelegenheid) ==
    [examinator |-> examinator, datum |-> Datum, gelegenheid |-> gelegenheid]

\* what the three widgets of lines 168-175 can return: an examiner with a
\* retake, and the examiner left empty
CommonDatas == {CommonData(<<"E">>, <<"Herkansing">>), CommonData(<<>>, <<"1e">>)}

\* the layouts of a header row: titles[j] is the title of column j and
\* holds[j] the required column whose data the sheet keeps in column j
Retitle(seq, old, new) == [j \in DOMAIN seq |-> IF seq[j] = old THEN new ELSE seq[j]]
Swapped == [j \in DOMAIN required_cols |->
               IF j = 1 THEN required_cols[2]
               ELSE IF j = 2 THEN required_cols[1] ELSE required_cols[j]]
Layouts ==
    {[titles |-> required_cols, holds |-> required_cols],
     [titles |-> Swapped, holds |-> Swapped],
     [titles |-> Retitle(required_cols, "Naam", "Name"), holds |-> required_cols],
     [titles |-> Retitle(required_cols, "Eindscore", "Cijfer"), holds |-> required_cols]}

HeaderRow(l) == [j \in DOMAIN l.titles |-> StrCell(<<l.titles[j]>>)]
DataRow(l, st) == [j \in DOMAIN l.holds |-> st[l.holds[j]]]

\* rows above the header row: a blank row and a title row
PreRows == {[j \in DOMAIN required_cols |-> NaNCell],
            [j \in DOMAIN required_cols |->
                IF j = 1 THEN StrCell(<<"Titel">>) ELSE NaNCell]}

\* the sheets: a preamble, then nothing or a header row and student rows
Sheets(layouts, students) ==
    {pre \o rest :
        pre \in StringsUpTo(PreRows, MaxPre),
        rest \in {<<>>} \cup
                 {<<HeaderRow(l)>> \o [k \in DOMAIN body |-> DataRow(l, body[k])] :
                     l \in layouts, body \in StringsUpTo(students, MaxData)}}

Sheet(rows) == [rows |-> rows]

\* student rows: complete ones, one without a name, a footer row and a blank
\* row without a student number, and one whose name is the marker text
MainStudents ==
    {Student(NumCell(2 * Denom), StrCell(<<"a">>), Scores1),
     Student(NumCell(12 * Denom), StrCell(<<"a">>), Scores3),
     Student(NumCell(2 * Denom), NaNCell, Scores1),
     Student(NaNCell, StrCell(<<"a">>), Scores1),
     Student(NaNCell, NaNCell, Scores2),
     Student(NumCell(12 * Denom), StrCell(<<"Studentnummer">>), Scores2)}

\* student rows with names that hold commas, spaces, underscores and digits
NameStudents ==
    {Student(NumCell(k * Denom), naam, Scores1) :
        k \in {2, 12},
        naam \in {StrCell(<<"a">>), StrCell(<<"a", "1">>),
                  StrCell(<<"a", ",", " ", "b">>), StrCell(<<"a", "_", "1">>),
                  NaNCell}}

---------------------------------------------------------------------------
(* Initial states *)

\* nothing has run yet
Idle ==
    /\ out = <<>>
    /\ doc = None
    /\ df = None
    /\ shown = <<>>
    /\ zip_buffer = <<>>
    /\ idx = 0
    /\ zip_file = None

\* format_score is about to be called with a float or NaN
InitFormat ==
    /\ Idle
    /\ pc = "format_score"
    /\ value \in {NaN} \cup {Float(n) : n \in (-MaxNum)..MaxNum}
    /\ template = TemplateFile
    /\ student_data = None
    /\ uploaded_file = None
    /\ common_data = CommonData(<<"E">>, <<"1e">>)

\* fill_template is about to be called on a template of which one label cell
\* is any text over Alphabet
InitFill ==
    /\ Idle
    /\ pc = "fill_template"
    /\ value = NaN
    /\ \E r \in 2..4, text \in StringsUpTo(Alphabet, MaxLen) :
           template = [TemplateFile EXCEPT !.label[r] = text]
    /\ \E scores \in {Scores1, Scores2, Scores3} :
           student_data = [c \in DOMAIN Student(NumCell(2 * Denom), StrCell(<<"a">>), scores) |->
                              IF c = "Studentnummer" THEN IntCell(2)
                              ELSE Student(NumCell(2 * Denom), StrCell(<<"a">>), scores)[c]]
    /\ uploaded_file = None
    /\ common_data = CommonData(<<"E">>, <<"1e">>)

\* the script starts with the widgets filled in
InitMain(sheets) ==
    /\ Idle
    /\ pc = "main"
    /\ value = NaN
    /\ template = TemplateFile
    /\ student_data = None
    /\ uploaded_file \in {None} \cup {Sheet(rows) : rows \in sheets}
    /\ common_data \in CommonDatas

Init == InitMain(Sheets(Layouts, MainStudents))

InitNames ==
    InitMain(Sheets({[titles |-> required_cols, holds |-> required_cols]}, NameStudents))

---------------------------------------------------------------------------
(* Actions *)

Message(kind, n) == [kind |-> kind, n |-> n]

\* a call of format_score
FormatScore ==
    /\ pc = "format_score"
    /\ out' = format_score(value)
    /\ pc' = "returned"
    /\ UNCHANGED <<value, template, student_data, doc, uploaded_file, common_data,
                   df, shown, zip_buffer, idx, zip_file>>

\* a call of fill_template
FillTemplate ==
    /\ pc = "fill_template"
    /\ doc' = fill_template(template, student_data, common_data)
    /\ pc' = "returned"
    /\ UNCHANGED <<value, out, template, student_data, uploaded_file, common_data,
                   df, shown, zip_buffer, idx, zip_file>>

\* lines 225-226: nothing is uploaded
NoFile ==
    /\ pc = "main"
    /\ uploaded_file = None
    /\ shown' = Append(shown, Message("info", 0))
    /\ pc' = "end"
    /\ UNCHANGED <<value, out, template, student_data, doc, uploaded_file,
                   common_data, df, zip_buffer, idx, zip_file>>

\* lines 185-188 with load_excel: without a header row an error is shown and
\* None is returned, and the script skips to the footer
LoadExcel ==
    /\ pc = "main"
    /\ uploaded_file # None
    /\ IF header_row(uploaded_file.rows) = 0
       THEN /\ shown' = Append(shown, Message("error: geen header", 0))
            /\ df' = None
            /\ pc' = "end"
       ELSE /\ df' = load_excel(uploaded_file.rows)
            /\ shown' = shown
            /\ pc' = "preview"
    /\ UNCHANGED <<value, out, template, student_data, doc, uploaded_file,
                   common_data, zip_buffer, idx, zip_file>>

\* lines 189-208: the count and the preview table, then the warning or the
\* button; display_df['Eindscore'] raises KeyError, uncaught, without the column
Preview ==
    /\ pc = "preview"
    /\ IF "Eindscore" \notin Range(df.columns)
       THEN /\ shown' = shown \o <<Message("studenten gevonden", Len(df.rows)),
                                   Message("uncaught KeyError", 0)>>
            /\ pc' = "end"
       ELSE IF common_data.examinator = <<>>
       THEN /\ shown' = shown \o <<Message("studenten gevonden", Len(df.rows)),
                                   Message("dataframe", Len(df.rows)),
                                   Message("warning: examinator", 0)>>
            /\ pc' = "end"
       ELSE /\ shown' = shown \o <<Message("studenten gevonden", Len(df.rows)),
                                   Message("dataframe", Len(df.rows)),
                                   Message("button", 0)>>
            /\ pc' = "button"
    /\ UNCHANGED <<value, out, template, student_data, doc, uploaded_file,
                   common_data, df, zip_buffer, idx, zip_file>>

\* lines 208-211 and 138-140: the button is pressed, generate_all_forms opens
\* an empty archive
ClickGenerate ==
    /\ pc = "button"
    /\ zip_buffer' = <<>>
    /\ idx' = 1
    /\ pc' = "generate"
    /\ UNCHANGED <<value, out, template, student_data, doc, uploaded_file,
                   common_data, df, shown, zip_file>>

\* lines 141-155: one pass of the loop; an exception leaves the function
GenerateRow ==
    /\ pc = "generate"
    /\ idx <= Len(df.rows)
    /\ student_data' = df.rows[idx]
    /\ IF RowRaises(df.rows[idx])
       THEN /\ pc' = "except"
            /\ UNCHANGED <<doc, zip_buffer, idx>>
       ELSE /\ doc' = fill_template(template, df.rows[idx], common_data)
            /\ zip_buffer' =
                   writestr(zip_buffer,
                            FileName(SanitizeName(df.rows[idx]["Naam"].s),
                                     df.rows[idx]["Studentnummer"].n),
                            doc')
            /\ idx' = idx + 1
            /\ pc' = "generate"
    /\ UNCHANGED <<value, out, template, uploaded_file, common_data, df, shown,
                   zip_file>>

\* lines 157-158 and 211-220: the archive is returned and offered
GenerateReturn ==
    /\ pc = "generate"
    /\ idx > Len(df.rows)
    /\ zip_file' = [entries |-> zip_buffer]
    /\ shown' = shown \o <<Message("success", Len(df.rows)),
                           Message("download_button", Len(zip_buffer))>>
    /\ pc' = "end"
    /\ UNCHANGED <<value, out, template, student_data, doc, uploaded_file,
                   common_data, df, zip_buffer, idx>>

\* OnException that offers what was written before the exception
OnExceptionKeepPartial(zf) == [entries |-> zip_buffer]

\* what the handler of lines 221-223 leaves in zip_file
OnException(zf) == zf

\* lines 221-223: the exception is caught and shown
HandleException ==
    /\ pc = "except"
    /\ zip_file' = OnException(zip_file)
    /\ shown' = shown \o <<Message("error: er ging iets mis", 0),
                           Message("exception", 0)>>
    /\ pc' = "end"
    /\ UNCHANGED <<value, out, template, student_data, doc, uploaded_file,
                   common_data, df, zip_buffer, idx>>

NextFormat == FormatScore

NextFill == FillTemplate

Next ==
    \/ NoFile
    \/ LoadExcel
    \/ Preview
    \/ ClickGenerate
    \/ GenerateRow
    \/ GenerateReturn
    \/ HandleException

SpecFormat == InitFormat /\ [][NextFormat]_vars

SpecFill == InitFill /\ [][NextFill]_vars

Spec == Init /\ [][Next]_vars

SpecNames == InitNames /\ [][Next]_vars

---------------------------------------------------------------------------
(* Properties *)

Suffix(t, k) == SubSeq(t, Len(t) - k + 1, Len(t))

\* w is a score pattern: digits, a comma or a period, digits
IsScorePattern(w) ==
    \E q \in 2..(Len(w) - 1) :
        /\ w[q] \in {",", "."}
        /\ \A j \in (1..Len(w)) \ {q} : w[j] \in Digits

\* the lengths of the suffixes of t that are score patterns
ScoreSuffixes(t) == {k \in 1..Len(t) : IsScorePattern(Suffix(t, k))}

EndsInScore(t) == ScoreSuffixes(t) # {}

\* the length of the trailing number of a text that ends in a score pattern
TrailingNumberLen(t) ==
    CHOOSE k \in ScoreSuffixes(t) : \A o \in ScoreSuffixes(t) : k >= o

\* the roster column whose score goes into the label cell of table 2 row r
LabelCol(r) == CASE r = 2 -> "Anam/LO" [] r = 3 -> "Verslag" [] r = 4 -> "Reflectie"

NewScore(r) == format_score(AsFloat(student_data[LabelCol(r)]))

\* value * 10 rounded to the nearest integer, a half rounded up
HalfUpTenths(n) == (2 * 10 * n + Denom) \div (2 * Denom)

\* C1 (as claimed): format_score returns "" for a missing value, and for a
\* number the value rounded to one decimal (a half rounded up, as in
\* 7.25 -> "7,3"), written as digits, one comma and exactly one digit, with
\* no period.
C1_RoundedToOneDecimal ==
    pc = "returned" =>
        IF value.nan THEN out = <<>>
        ELSE /\ Len(out) >= 3
             /\ out[Len(out) - 1] = ","
             /\ out[Len(out)] \in Digits
             /\ \A j \in 1..Len(out) : out[j] # "."
             /\ Cardinality({j \in 1..Len(out) : out[j] = ","}) = 1
             /\ value.n >= 0 =>
                    out = NatToStr(HalfUpTenths(value.n) \div 10) \o <<",">>
                            \o <<DigitChar(HalfUpTenths(value.n) % 10)>>

\* C2 (as claimed): after fill_template, a label cell of rows 2..4 whose
\* template text ends in a score pattern holds the template text with only
\* the trailing number replaced by the new score; the text before the number
\* is kept character by character.
C2_OnlyTrailingNumberReplaced ==
    pc = "returned" /\ doc # None =>
        \A r \in 2..4 :
            LET t == template.label[r]
            IN  EndsInScore(t) =>
                    doc.label[r] =
                        SubSeq(t, 1, Len(t) - TrailingNumberLen(t)) \o NewScore(r)

\* C3 (as claimed): after fill_template, a label cell of rows 2..4 whose
\* template text does not end in a score pattern holds the whole template
\* text, then padding, then the new score at the end.
C3_AppendedToWholeText ==
    pc = "returned" /\ doc # None =>
        \A r \in 2..4 :
            LET t == template.label[r]
                new == doc.label[r]
            IN  ~EndsInScore(t) =>
                    /\ Len(new) >= Len(t) + Len(NewScore(r))
                    /\ SubSeq(new, 1, Len(t)) = t
                    /\ Suffix(new, Len(NewScore(r))) = NewScore(r)

\* C3 (amended): after fill_template, a label cell of rows 2..4 whose
\* template text, leading and trailing whitespace set aside, does not end in
\* a score pattern holds the template text without its trailing whitespace,
\* then two spaces, then the new score; only trailing whitespace is removed.
C3_AppendedAfterRstrip ==
    pc = "returned" /\ doc # None =>
        \A r \in 2..4 :
            LET t == template.label[r]
                new == doc.label[r]
                sc == NewScore(r)
                keep == Len(new) - Len(sc) - 2
            IN  ~EndsInScore(strip(t)) =>
                    /\ keep >= 0 /\ keep <= Len(t)
                    /\ SubSeq(new, 1, keep) = SubSeq(t, 1, keep)
                    /\ SubSeq(new, keep + 1, keep + 2) = <<" ", " ">>
                    /\ Suffix(new, Len(sc)) = sc
                    /\ \A j \in (keep + 1)..Len(t) : t[j] \in Whitespace
                    /\ keep > 0 => t[keep] \notin Whitespace

\* C3 witness: a score was appended to a text that has leading and trailing
\* whitespace around a label
C3_Witness ==
    /\ pc = "returned" /\ doc # None
    /\ \E r \in 2..4 :
          LET t == template.label[r]
          IN  /\ ~EndsInScore(strip(t))
              /\ Len(t) >= 3
              /\ t[1] \in Whitespace /\ t[Len(t)] \in Whitespace
              /\ strip(t) # <<>>
              /\ NewScore(r) # <<>>
              /\ doc.label[r] # t

\* the rows of the uploaded sheet
RawRows == uploaded_file.rows

\* the first row of the sheet that holds the marker 'Studentnummer'
FirstMarked ==
    CHOOSE i \in 1..Len(RawRows) :
        HasMarker(RawRows[i]) /\ \A j \in 1..(i - 1) : ~HasMarker(RawRows[j])

\* the rows after the header row that have a student number
WithNumber ==
    LET sn == ColPos(RawRows[FirstMarked], "Studentnummer")
    IN  {i \in (FirstMarked + 1)..Len(RawRows) : RawRows[i][sn].t # "nan"}

\* the k-th of them, from the top
KthWithNumber(k) ==
    CHOOSE i \in WithNumber : Cardinality({j \in WithNumber : j <= i}) = k

Shown(kind) == {m \in Range(shown) : m.kind = kind}

\* the button was pressed and the run is over
GenerationEnded == pc = "end" /\ Shown("button") # {}

\* the row has a name: the column is there and the cell holds text
HasName(row) == "Naam" \in DOMAIN row /\ row["Naam"].t = "str"

C5_RowsWithStudentNumber ==
    df # None =>
        /\ Len(df.rows) = Cardinality(WithNumber)
        /\ \A k \in 1..Len(df.rows) :
              LET raw == RawRows[KthWithNumber(k)]
                  columns == RawRows[FirstMarked]
              IN  \A c \in Range(df.columns) :
                      IF c = "Studentnummer"
                      THEN df.rows[k][c].n * Denom = raw[ColPos(columns, c)].n
                      ELSE df.rows[k][c] = raw[ColPos(columns, c)]
        /\ \A m \in Shown("studenten gevonden") : m.n = Cardinality(WithNumber)
        /\ zip_file # None => Len(zip_file.entries) = Cardinality(WithNumber)

\* C5 witness: a row without a student number lay between two rows that
\* have one, and the two were returned
C5_Witness ==
    /\ df # None /\ Len(df.rows) = 2
    /\ \E i \in WithNumber, j \in WithNumber :
          \E d \in (i + 1)..(j - 1) : d \notin WithNumber
    /\ df.rows[1] # df.rows[2]
    /\ Shown("studenten gevonden") # {}

\* C6: the header is the first row that holds the marker and no row up to it
\* becomes a student; without such a row an error is shown, no roster is
\* returned and neither the preview nor the generation runs.
C6_FirstMarkerRowIsHeader ==
    pc # "main" /\ uploaded_file # None =>
        IF \A i \in 1..Len(RawRows) : ~HasMarker(RawRows[i])
        THEN /\ df = None /\ zip_file = None /\ zip_buffer = <<>>
             /\ pc = "end"
             /\ shown = <<Message("error: geen header", 0)>>
        ELSE /\ df # None
             /\ \A c \in Range(required_cols) :
                    c \in Range(df.columns) <=>
                        StrCell(<<c>>) \in Range(RawRows[FirstMarked])
             /\ Len(df.rows) <= Len(RawRows) - FirstMarked
             /\ Shown("error: geen header") = {}

\* C6 witness: a sheet with a preamble, a header row and a later row that
\* holds the marker again was loaded
C6_Witness ==
    /\ df # None
    /\ FirstMarked > 1
    /\ \E i \in (FirstMarked + 1)..Len(RawRows) : HasMarker(RawRows[i])
    /\ Len(df.rows) >= 1

\* C6 witness: a sheet without a header row was refused
C6_WitnessNoHeader ==
    /\ pc = "end" /\ uploaded_file # None
    /\ Len(RawRows) >= 1
    /\ \A i \in 1..Len(RawRows) : ~HasMarker(RawRows[i])

\* C7: when the document of a row raises, the error is shown and no archive
\* is offered, whatever was written before; an archive is offered only when
\* every row got its document.
C7_AllOrNothing ==
    /\ zip_file # None =>
           /\ \A k \in 1..Len(df.rows) : ~RowRaises(df.rows[k])
           /\ Len(zip_file.entries) = Len(df.rows)
           /\ Shown("exception") = {} /\ Shown("download_button") # {}
    /\ Shown("download_button") # {} => zip_file # None
    /\ GenerationEnded /\ (\E k \in 1..Len(df.rows) : RowRaises(df.rows[k])) =>
           /\ Shown("error: er ging iets mis") # {} /\ Shown("exception") # {}
           /\ zip_file = None /\ Shown("download_button") = {}

\* C7 witness: a row raised after the documents of earlier rows were written
C7_Witness ==
    /\ GenerationEnded
    /\ Shown("exception") # {}
    /\ Len(zip_buffer) >= 1
    /\ zip_file = None

\* the name with every comma left out and every space turned into "_"
RECURSIVE Sanitized(_)
Sanitized(naam) ==
    IF naam = <<>> THEN <<>>
    ELSE (CASE Head(naam) = "," -> <<>>
            [] Head(naam) = " " -> <<"_">>
            [] OTHER -> <<Head(naam)>>) \o Sanitized(Tail(naam))

\* the number a string of decimal digits denotes
RECURSIVE ParseNat(_)
ParseNat(d) ==
    IF d = <<>> THEN 0
    ELSE 10 * ParseNat(SubSeq(d, 1, Len(d) - 1))
         + (CHOOSE k \in 0..9 : DigitChar(k) = d[Len(d)])

\* nm is Eindbeoordeling_<clean>_<number>.docx
IsFormName(nm, clean, number) ==
    LET from == 2 + Len(clean) + 2
        d == SubSeq(nm, from, Len(nm) - 1)
    IN  /\ Len(nm) >= from + 1
        /\ SubSeq(nm, 1, 2) = <<"Eindbeoordeling", "_">>
        /\ SubSeq(nm, 3, 2 + Len(clean)) = clean
        /\ nm[from - 1] = "_"
        /\ nm[Len(nm)] = ".docx"
        /\ \A j \in 1..Len(d) : d[j] \in Digits
        /\ ParseNat(d) = number

\* C8: every entry written to the archive is named
\* Eindbeoordeling_<name without commas, spaces as underscores>_<student
\* number>.docx, and a roster of three complete rows gives three entries.
C8_EntryNames ==
    /\ \A k \in 1..Len(zip_buffer) :
          /\ IsFormName(zip_buffer[k].name, Sanitized(df.rows[k]["Naam"].s),
                        df.rows[k]["Studentnummer"].n)
          /\ \A j \in 1..Len(zip_buffer[k].name) :
                 zip_buffer[k].name[j] \notin {",", " "}
    /\ zip_file # None /\ Len(df.rows) = 3 => Len(zip_file.entries) = 3

\* C8 witness: an archive of three entries, one of them for a name with a
\* comma and a space
C8_Witness ==
    /\ zip_file # None
    /\ Len(zip_file.entries) = 3
    /\ \E k \in 1..3 : \E j \in 1..Len(df.rows[k]["Naam"].s) :
          df.rows[k]["Naam"].s[j] = ","
    /\ \E k \in 1..3 : \E j \in 1..Len(df.rows[k]["Naam"].s) :
          df.rows[k]["Naam"].s[j] = " "

\* C9: every document of a run holds the examiner, the date and the attempt
\* type of that run, keeps the template's cells that are not filled in, and
\* is the same for the same row wherever the row stands in the roster.
C9_DocumentDependsOnRowOnly ==
    \A k \in 1..Len(zip_buffer) :
        LET d == zip_buffer[k].data
        IN  /\ d.t1[1] = common_data.examinator
            /\ d.t1[2] = common_data.datum
            /\ d.t1[3] = common_data.gelegenheid
            /\ d.heading = template.heading
            /\ \A j \in 1..Len(zip_buffer) :
                   df.rows[j] = df.rows[k] => zip_buffer[j].data = d

\* C9 witness: the same row stood first and third, around a different row,
\* and all three documents were written
C9_Witness ==
    /\ zip_file # None
    /\ Len(zip_file.entries) >= 3
    /\ df.rows[1] = df.rows[3]
    /\ df.rows[1] # df.rows[2]
    /\ zip_file.entries[1].data # zip_file.entries[2].data

\* C10: entries written for rows with different student numbers have
\* different names, whatever the names of the students are.
C10_DistinctNumbersDistinctNames ==
    \A j, k \in 1..Len(zip_buffer) :
        df.rows[j]["Studentnummer"].n # df.rows[k]["Studentnummer"].n =>
            zip_buffer[j].name # zip_buffer[k].name

\* C10 witness: an archive for two rows with different numbers of which one
\* name ends in the digits the other number starts with
C10_Witness ==
    /\ zip_file # None
    /\ \E j, k \in 1..Len(zip_file.entries) :
          /\ df.rows[j]["Studentnummer"].n = 2
          /\ df.rows[k]["Studentnummer"].n = 12
          /\ df.rows[j]["Naam"].s = <<"a", "1">>
          /\ df.rows[k]["Naam"].s = <<"a">>

====
